---------------------------- MODULE Spec2Model ----------------------------
(***************************************************************************)
(* Manual M-Pesa payment submission of the valentines backend              *)
(* (src/valentines/views.py, src/valentines/models.py).                    *)
(*                                                                         *)
(* Text is a sequence of one-character strings.  A point in time is a      *)
(* number of seconds of civil time in the current time zone, counted from  *)
(* 1 January 2026 00:00 (the zone is taken to have a fixed UTC offset, so  *)
(* comparing civil seconds is comparing instants).  An amount is a pair    *)
(* [num, exp] standing for num / 10^exp, the decimal literal read exactly. *)
(***************************************************************************)
EXTENDS Integers, Sequences, FiniteSets, TLC

VARIABLES store, resp, firstOwner, calls, req, msg, parsed

vars == <<store, resp, firstOwner, calls, req, msg, parsed>>

(* None / SQL NULL where a text is expected: no text equals it.            *)
None == <<"None">>

-----------------------------------------------------------------------------
(* Characters and the str methods the handlers use.                        *)

UpperLetters == <<"A", "B", "C", "D", "E", "F", "G", "H", "I", "J", "K", "L", "M", "N", "O", "P", "Q", "R", "S", "T", "U", "V", "W", "X", "Y", "Z">>

LowerLetters == <<"a", "b", "c", "d", "e", "f", "g", "h", "i", "j", "k", "l", "m", "n", "o", "p", "q", "r", "s", "t", "u", "v", "w", "x", "y", "z">>

DigitChars == <<"0", "1", "2", "3", "4", "5", "6", "7", "8", "9">>

Range(s) == {s[i] : i \in 1..Len(s)}

UpperSet == Range(UpperLetters)

DigitSet == Range(DigitChars)

(* str.isspace() for the characters of the model: space, newline, tab.     *)
SpaceChars == {" ", "\n", "\t"}

IsSpace(c) == c \in SpaceChars

DigitValue(c) == (CHOOSE i \in 1..10 : DigitChars[i] = c) - 1

(* str.upper(), one character.                                             *)
UpperChar(c) ==
    IF \E i \in 1..26 : LowerLetters[i] = c
    THEN UpperLetters[CHOOSE i \in 1..26 : LowerLetters[i] = c]
    ELSE c

(* The text as it was typed.                                               *)
AsTyped(s) == s

(* str.upper()                                                             *)
Upper(s) == [i \in 1..Len(s) |-> UpperChar(s[i])]

(* str.lower(), one character.                                             *)
LowerChar(c) ==
    IF \E i \in 1..26 : UpperLetters[i] = c
    THEN LowerLetters[CHOOSE i \in 1..26 : UpperLetters[i] = c]
    ELSE c

(* str.lower()                                                             *)
Lower(s) == [i \in 1..Len(s) |-> LowerChar(s[i])]

(* str.strip(): leading and trailing whitespace removed.                   *)
StripTo(s, ns) ==
    IF ns = {} THEN <<>>
    ELSE SubSeq(s, CHOOSE i \in ns : \A j \in ns : i <= j,
                   CHOOSE i \in ns : \A j \in ns : j <= i)

Strip(s) == StripTo(s, {i \in 1..Len(s) : ~IsSpace(s[i])})

(* ' '.join(s.split()): every run of whitespace becomes one space, and     *)
(* leading and trailing whitespace goes.                                   *)
LastOf(ns) == IF ns = {} THEN 0 ELSE CHOOSE i \in ns : \A j \in ns : j <= i

(* The positions kept: every non-space, and the first space of a run that  *)
(* has a word before it and a word after it.                               *)
Kept(s, last) ==
    SelectSeq([i \in 1..Len(s) |-> i],
              LAMBDA i : \/ ~IsSpace(s[i])
                         \/ i > 1 /\ ~IsSpace(s[i-1]) /\ i < last)

Joined(s, idx) ==
    [k \in 1..Len(idx) |-> IF IsSpace(s[idx[k]]) THEN " " ELSE s[idx[k]]]

JoinSplit(s) ==
    Joined(s, Kept(s, LastOf({i \in 1..Len(s) : ~IsSpace(s[i])})))

(* s[i:] starts with the literal lit.                                      *)
HasAt(s, i, lit) ==
    /\ i >= 1
    /\ i + Len(lit) - 1 <= Len(s)
    /\ \A k \in 1..Len(lit) : s[i + k - 1] = lit[k]

(* lit in s                                                                *)
Contains(s, lit) == \E i \in 1..Len(s) : HasAt(s, i, lit)

(* Length of the run of characters of the class, from position i.          *)
RunTo(s, i, stop) ==
    IF i > Len(s) THEN 0
    ELSE IF stop = {} THEN Len(s) - i + 1
    ELSE (CHOOSE j \in stop : \A k \in stop : j <= k) - i

RunLen(s, i, class) == RunTo(s, i, {j \in i..Len(s) : s[j] \notin class})

(* The smallest member of a non-empty set of positions (re.search returns  *)
(* the leftmost match).                                                    *)
Leftmost(S) == CHOOSE i \in S : \A j \in S : i <= j

(* int() of a non-empty string of digits.                                  *)
RECURSIVE DigitsToNat(_)
DigitsToNat(ds) ==
    IF ds = <<>> THEN 0
    ELSE 10 * DigitsToNat(SubSeq(ds, 1, Len(ds) - 1)) + DigitValue(ds[Len(ds)])

RECURSIVE Pow10(_)
Pow10(k) == IF k = 0 THEN 1 ELSE 10 * Pow10(k - 1)

-----------------------------------------------------------------------------
(* Literals of the source.                                                 *)

KSH == <<"K", "s", "h">>

CONFIRMED_DOT == <<"C", "o", "n", "f", "i", "r", "m", "e", "d", ".">>

CONFIRMED_UPPER == <<"C", "O", "N", "F", "I", "R", "M", "E", "D">>

ANDREW_MUSILI == <<"A", "N", "D", "R", "E", "W", " ", "M", "U", "S", "I", "L", "I">>

ERR_NO_CODE == "Could not find a valid M-Pesa transaction code in the message."

ERR_NO_AMOUNT == "Could not extract payment amount from the message."

ERR_BAD_AMOUNT == "Invalid amount format in message."

ERR_NO_DATE == "Could not find transaction date and time."

(* The start of the message of line 470, which goes on with the exception. *)
ERR_DATE_FORMAT == "Date format error"

-----------------------------------------------------------------------------
(* _parse_mpesa_message, step 1: the transaction code.                     *)

IsCodeChar(c) == c \in UpperSet \/ c \in DigitSet

(* [A-Z0-9]{10} matches at position i.                                     *)
CodeRunAt(m, i) ==
    /\ i + 9 <= Len(m)
    /\ \A k \in 0..9 : IsCodeChar(m[i + k])

\* re.search(r'^([A-Z0-9]{10})\s+Confirmed\.', message)
PrimaryCodeMatch(m) ==
    /\ CodeRunAt(m, 1)
    /\ RunLen(m, 11, SpaceChars) >= 1
    /\ HasAt(m, 11 + RunLen(m, 11, SpaceChars), CONFIRMED_DOT)

\* re.search(r'([A-Z0-9]{10})', message): the positions where it matches.
FallbackCodeMatches(m) == {i \in 1..Len(m) : CodeRunAt(m, i)}

(* Lines 428-435: group(1) of the match, None when neither pattern matches.*)
CodeAt(m, found) ==
    IF found = {} THEN None
    ELSE SubSeq(m, Leftmost(found), Leftmost(found) + 9)

ExtractCode(m) ==
    IF PrimaryCodeMatch(m) THEN SubSeq(m, 1, 10)
    ELSE CodeAt(m, FallbackCodeMatches(m))

-----------------------------------------------------------------------------
(* Step 2: the amount.                                                     *)

\* [\d,]
AmountChars == DigitSet \cup {","}

\* re.search(r'Ksh([\d,]+\.?\d*)', message): positions where it matches.
AmountMatches(m) ==
    {i \in 1..Len(m) : HasAt(m, i, KSH) /\ RunLen(m, i + 3, AmountChars) >= 1}

\* group(1) of a match at position i: the greedy [\d,]+, then \.?, then \d*
GroupEnd(m, a, n1) ==
    IF a + n1 <= Len(m) /\ m[a + n1] = "."
    THEN a + n1 + RunLen(m, a + n1 + 1, DigitSet)
    ELSE a + n1 - 1

AmountGroupAt(m, i) ==
    SubSeq(m, i + 3, GroupEnd(m, i + 3, RunLen(m, i + 3, AmountChars)))

AmountGroup(m) == AmountGroupAt(m, Leftmost(AmountMatches(m)))

(* A value num / 10^exp in lowest form, so that equal values are equal     *)
(* pairs (250.00 and 250 are both num 250, exp 0).                         *)
RECURSIVE Canon(_, _)
Canon(num, exp) ==
    IF exp > 0 /\ num % 10 = 0 THEN Canon(num \div 10, exp - 1)
    ELSE [num |-> num, exp |-> exp]

(* A reading that drops the digits after the point.                        *)
FloatOfWhole(ip, fp) ==
    IF ip = <<>> /\ fp = <<>> THEN [ok |-> FALSE, num |-> 0, exp |-> 0]
    ELSE [ok |-> TRUE, num |-> DigitsToNat(ip), exp |-> 0]

(* float(s) of a string of digits with at most one point: the value        *)
(* num / 10^exp; ok is FALSE for the ValueError of a string with no digit. *)
FloatOf(ip, fp) ==
    IF ip = <<>> /\ fp = <<>> THEN [ok |-> FALSE, num |-> 0, exp |-> 0]
    ELSE [ok |-> TRUE] @@ Canon(DigitsToNat(ip \o fp), Len(fp))

PointAt(s, dots) == IF dots = {} THEN Len(s) + 1 ELSE Leftmost(dots)

FloatAt(s, p) == FloatOf(SubSeq(s, 1, p - 1), SubSeq(s, p + 1, Len(s)))

Float(s) == FloatAt(s, PointAt(s, {i \in 1..Len(s) : s[i] = "."}))

(* An outcome that takes a string float() refuses as the amount 0.         *)
AmountOfLenient(f) == [status |-> "ok", num |-> f.num, exp |-> f.exp]

(* Lines 439-447: status "nomatch" (no match), "invalid" (ValueError) or   *)
(* "ok" with the amount.                                                   *)
AmountOf(f) ==
    IF f.ok THEN [status |-> "ok", num |-> f.num, exp |-> f.exp]
    ELSE [status |-> "invalid", num |-> 0, exp |-> 0]

ExtractAmount(m) ==
    IF AmountMatches(m) = {} THEN [status |-> "nomatch", num |-> 0, exp |-> 0]
    ELSE AmountOf(Float(SelectSeq(AmountGroup(m), LAMBDA c : c # ",")))

(* amount < n for an integer n.                                           *)
AmountLess(a, n) == a.num < n * Pow10(a.exp)

-----------------------------------------------------------------------------
(* Step 3: date and time.                                                  *)

\* The pieces of a pattern, matched from position p: each gives the position
\* after its match, or 0 when it does not match (p = 0: nothing to match).

\* \s+
SkipSpaces(m, p) ==
    IF p # 0 /\ RunLen(m, p, SpaceChars) >= 1 THEN p + RunLen(m, p, SpaceChars) ELSE 0

\* \d{lo,hi} before something that is no digit
SkipDigits(m, p, lo, hi) ==
    IF p # 0 /\ RunLen(m, p, DigitSet) \in lo..hi THEN p + RunLen(m, p, DigitSet) ELSE 0

\* a literal
SkipLit(m, p, lit) ==
    IF p # 0 /\ HasAt(m, p, lit) THEN p + Len(lit) ELSE 0

\* re.search(r'on\s+(\d{1,2}/\d{1,2}/\d{2,4})\s+at\s+(\d{1,2}:\d{2}\s+[AP]M)')
\* tried at position i: where the day, the month, the year, the hour, the
\* minute and AM/PM start (0: no match).
DayAt(m, i) == SkipSpaces(m, SkipLit(m, i, <<"o", "n">>))

MonthAt(m, i) == SkipLit(m, SkipDigits(m, DayAt(m, i), 1, 2), <<"/">>)

YearAt(m, i) == SkipLit(m, SkipDigits(m, MonthAt(m, i), 1, 2), <<"/">>)

HourAt(m, i) ==
    SkipSpaces(m, SkipLit(m, SkipSpaces(m, SkipDigits(m, YearAt(m, i), 2, 4)), <<"a", "t">>))

MinuteAt(m, i) == SkipLit(m, SkipDigits(m, HourAt(m, i), 1, 2), <<":">>)

AmPmAt(m, i) == SkipSpaces(m, SkipDigits(m, MinuteAt(m, i), 2, 2))

IsAmPm(m, p) == p # 0 /\ (HasAt(m, p, <<"A", "M">>) \/ HasAt(m, p, <<"P", "M">>))

DateMatches(m) == {i \in 1..Len(m) : IsAmPm(m, AmPmAt(m, i))}

DigitsAt(m, p) == SubSeq(m, p, p + RunLen(m, p, DigitSet) - 1)

(* The groups of the match at position i.                                  *)
DateGroups(m, i) ==
    [day    |-> DigitsAt(m, DayAt(m, i)),
     month  |-> DigitsAt(m, MonthAt(m, i)),
     year   |-> DigitsAt(m, YearAt(m, i)),
     hour   |-> DigitsAt(m, HourAt(m, i)),
     minute |-> DigitsAt(m, MinuteAt(m, i)),
     pm     |-> HasAt(m, AmPmAt(m, i), <<"P", "M">>)]

IsLeap(y) == (y % 4 = 0 /\ y % 100 # 0) \/ y % 400 = 0

DaysInMonth(y, mo) ==
    IF mo = 2 THEN (IF IsLeap(y) THEN 29 ELSE 28)
    ELSE IF mo \in {4, 6, 9, 11} THEN 30 ELSE 31

(* Days from 1 March 0000 to the civil date y-mo-d, for a year counted     *)
(* from March (yy is y - 1 in January and February).                       *)
DaysFromMarch(yy, mo, d) ==
    365 * yy + yy \div 4 - yy \div 100 + yy \div 400
        + (153 * ((mo + 9) % 12) + 2) \div 5 + d - 1

DaysFromCivil(y, mo, d) == DaysFromMarch(IF mo <= 2 THEN y - 1 ELSE y, mo, d)

(* The instant of a civil date and time: seconds from 1 January 2026 00:00.*)
Instant(y, mo, d, h, mi, s) ==
    (DaysFromCivil(y, mo, d) - DaysFromCivil(2026, 1, 1)) * 86400
        + h * 3600 + mi * 60 + s

(* %y: 00-68 are 2000-2068 and 69-99 are 1969-1999; %Y: as written.        *)
YearOf(year) ==
    IF Len(year) = 2
    THEN (IF DigitsToNat(year) <= 68 THEN 2000 + DigitsToNat(year)
          ELSE 1900 + DigitsToNat(year))
    ELSE DigitsToNat(year)

(* %I with %p                                                              *)
HourOf(h12, pm) ==
    IF pm THEN (IF h12 = 12 THEN 12 ELSE h12 + 12)
    ELSE (IF h12 = 12 THEN 0 ELSE h12)

(* datetime.strptime(dt_str, fmt), fmt chosen by the length of the year    *)
(* (lines 459-468): %y takes two digits and %Y four; %d is 1-31, %m 1-12,  *)
(* %I 1-12, %M 00-59; the date must exist, in a year from 1 on.            *)
Datetime(ylen, y, mo, d, h12, mi, pm) ==
    IF /\ ylen \in {2, 4}
       /\ d \in 1..31
       /\ mo \in 1..12
       /\ h12 \in 1..12
       /\ mi \in 0..59
       /\ y >= 1
       /\ d <= DaysInMonth(y, mo)
    THEN [ok |-> TRUE, year |-> y, t |-> Instant(y, mo, d, HourOf(h12, pm), mi, 0)]
    ELSE [ok |-> FALSE, year |-> 0, t |-> 0]

Strptime(g) ==
    Datetime(Len(g.year), YearOf(g.year), DigitsToNat(g.month), DigitsToNat(g.day),
             DigitsToNat(g.hour), DigitsToNat(g.minute), g.pm)

(* Lines 451-470: status "nomatch", "invalid" (the except branch) or "ok"  *)
(* with the aware datetime t.                                              *)
DateTimeOf(dt) ==
    IF dt.ok THEN [status |-> "ok", year |-> dt.year, t |-> dt.t]
    ELSE [status |-> "invalid", year |-> 0, t |-> 0]

DateTimeAt(m, found) ==
    IF found = {} THEN [status |-> "nomatch", year |-> 0, t |-> 0]
    ELSE DateTimeOf(Strptime(DateGroups(m, Leftmost(found))))

ExtractDateTime(m) == DateTimeAt(m, DateMatches(m))

-----------------------------------------------------------------------------
(* _parse_mpesa_message: the pair (parsed_data, error).  parsed_data is    *)
(* NoData (Python's None) or the dict of the four entries; error is        *)
(* NoError (None) or the message.                                          *)

NoData == [none |-> TRUE]

NoError == "None"

ParseError(error) == [parsed_data |-> NoData, error |-> error]

(* A record put together without the date and time.                        *)
ParsedDataNoDate(message, code, amount, dt) ==
    [parsed_data |->
        [code |-> code,
         amount |-> [num |-> amount.num, exp |-> amount.exp],
         recipient |-> Contains(Upper(message), ANDREW_MUSILI)],
     error |-> NoError]

(* Lines 472-477: the dict returned; the recipient is looked for in the    *)
(* cleaned message.                                                        *)
ParsedData(message, code, amount, dt) ==
    [parsed_data |->
        [code |-> code,
         amount |-> [num |-> amount.num, exp |-> amount.exp],
         datetime |-> dt.t,
         recipient |-> Contains(Upper(message), ANDREW_MUSILI)],
     error |-> NoError]

(* The steps with the amount looked at before the code.                    *)
ParseStepsAmountFirst(message, code, amount, dt) ==
    IF amount.status = "nomatch" THEN ParseError(ERR_NO_AMOUNT)
    ELSE IF amount.status = "invalid" THEN ParseError(ERR_BAD_AMOUNT)
    ELSE IF code = None THEN ParseError(ERR_NO_CODE)
    ELSE IF dt.status = "nomatch" THEN ParseError(ERR_NO_DATE)
    ELSE IF dt.status = "invalid" THEN ParseError(ERR_DATE_FORMAT)
    ELSE ParsedData(message, code, amount, dt)

(* Lines 426-477 on the cleaned message and its three extractions.         *)
ParseSteps(message, code, amount, dt) ==
    IF code = None THEN ParseError(ERR_NO_CODE)
    ELSE IF amount.status = "nomatch" THEN ParseError(ERR_NO_AMOUNT)
    ELSE IF amount.status = "invalid" THEN ParseError(ERR_BAD_AMOUNT)
    ELSE IF dt.status = "nomatch" THEN ParseError(ERR_NO_DATE)
    ELSE IF dt.status = "invalid" THEN ParseError(ERR_DATE_FORMAT)
    ELSE ParsedData(message, code, amount, dt)

ParseCleaned(message) ==
    ParseSteps(message, ExtractCode(message), ExtractAmount(message),
               ExtractDateTime(message))

(* Line 424 and the rest.                                                  *)
ParseMpesaMessage(message) == ParseCleaned(JoinSplit(message))

-----------------------------------------------------------------------------
(* Bounds of the model and the inputs the handlers are run on.             *)

NumRecords == 2

(* The number of requests a run serves.                                    *)
MaxCalls == 3

Pks == 1..NumRecords

(* TEMPLATE_CHOICES; record pk is created with the template TemplateOf(pk). *)
TemplateChoices == <<"classic", "poem", "love_letter">>

TemplateTypes == Range(TemplateChoices)

(* The categories a row can hold: the column takes any text, and the      *)
(* choices are checked only where a record is created.                     *)
Categories == TemplateTypes \cup {"unknown"}

TemplateOf(pk) == TemplateChoices[((pk - 1) % 3) + 1]

(* The `code` fields submitted.  The full messages carry the code          *)
(* UBEG76GMIO and the time 14/2/26 8:28 AM unless their name says otherwise.*)
IN_EMPTY == <<>>

IN_BLANK == <<" ", "\n">>

IN_BARE_LOWER == <<"u", "b", "e", "g", "7", "6", "g", "m", "i", "o">>

IN_BARE_MIXED == <<"U", "b", "e", "g", "7", "6", "G", "m", "I", "o">>

IN_BARE == <<" ", "A", "B", "C", "1", "2", "3", "X", "Y", "Z", "0", "\n">>

IN_BARE_14_TAB == <<"a", "b", "c", "1", "2", "3", "\t", "X", "Y", "Z", "0", "1", "2", "3">>

IN_NOSPACE_15 == <<"A", "B", "C", "1", "2", "3", "X", "Y", "Z", "0", "1", "2", "3", "4", "5">>

IN_SHORT_SPACE == <<"A", "B", " ", "C", "D">>

MSG_250 == <<"U", "B", "E", "G", "7", "6", "G", "M", "I", "O", " ", "C", "o", "n", "f", "i", "r", "m", "e", "d", ".", " ", "K", "s", "h", "2", "5", "0", ".", "0", "0", " ", "s", "e", "n", "t", " ", "t", "o", " ", "A", "N", "D", "R", "E", "W", " ", "M", "U", "S", "I", "L", "I", " ", "o", "n", " ", "1", "4", "/", "2", "/", "2", "6", " ", "a", "t", " ", "8", ":", "2", "8", " ", "A", "M">>

MSG_349 == <<"U", "B", "E", "G", "7", "6", "G", "M", "I", "O", " ", "C", "o", "n", "f", "i", "r", "m", "e", "d", ".", " ", "K", "s", "h", "3", "4", "9", ".", "9", "9", " ", "s", "e", "n", "t", " ", "t", "o", " ", "A", "n", "d", "r", "e", "w", " ", "M", "u", "s", "i", "l", "i", " ", "o", "n", " ", "1", "4", "/", "2", "/", "2", "0", "2", "6", " ", "a", "t", " ", "8", ":", "2", "8", " ", "A", "M">>

MSG_500 == <<"U", "B", "E", "G", "7", "6", "G", "M", "I", "O", " ", " ", "C", "o", "n", "f", "i", "r", "m", "e", "d", ".", "\n", "K", "s", "h", "5", "0", "0", " ", "s", "e", "n", "t", " ", "t", "o", " ", "A", "N", "D", "R", "E", "W", " ", "M", "U", "S", "I", "L", "I", " ", "o", "n", " ", "1", "4", "/", "2", "/", "2", "6", " ", "a", "t", " ", "0", "8", ":", "2", "8", " ", "A", "M", ".">>

MSG_NO_RECIPIENT == <<"U", "B", "E", "G", "7", "6", "G", "M", "I", "O", " ", "C", "o", "n", "f", "i", "r", "m", "e", "d", ".", " ", "K", "s", "h", "5", "0", "0", ".", "0", "0", " ", "s", "e", "n", "t", " ", "t", "o", " ", "J", "O", "H", "N", " ", "D", "O", "E", " ", "o", "n", " ", "1", "4", "/", "2", "/", "2", "6", " ", "a", "t", " ", "8", ":", "2", "8", " ", "A", "M">>

MSG_NO_CODE == <<"C", "o", "n", "f", "i", "r", "m", "e", "d", ".", " ", "K", "s", "h", "5", "0", "0", ".", "0", "0", " ", "s", "e", "n", "t", " ", "t", "o", " ", "A", "N", "D", "R", "E", "W", " ", "M", "U", "S", "I", "L", "I", " ", "o", "n", " ", "1", "4", "/", "2", "/", "2", "6", " ", "a", "t", " ", "8", ":", "2", "8", " ", "A", "M">>

MSG_LOWER_CODE == <<"u", "b", "e", "g", "7", "6", "g", "m", "i", "o", " ", "C", "o", "n", "f", "i", "r", "m", "e", "d", ".", " ", "K", "s", "h", "5", "0", "0", ".", "0", "0", " ", "s", "e", "n", "t", " ", "t", "o", " ", "A", "N", "D", "R", "E", "W", " ", "M", "U", "S", "I", "L", "I", " ", "o", "n", " ", "1", "4", "/", "2", "/", "2", "6", " ", "a", "t", " ", "8", ":", "2", "8", " ", "A", "M">>

MSG_NO_AMOUNT == <<"U", "B", "E", "G", "7", "6", "G", "M", "I", "O", " ", "C", "o", "n", "f", "i", "r", "m", "e", "d", ".", " ", "K", "E", "S", "5", "0", "0", ".", "0", "0", " ", "s", "e", "n", "t", " ", "t", "o", " ", "A", "N", "D", "R", "E", "W", " ", "M", "U", "S", "I", "L", "I", " ", "o", "n", " ", "1", "4", "/", "2", "/", "2", "6", " ", "a", "t", " ", "8", ":", "2", "8", " ", "A", "M">>

MSG_NO_DATE == <<"U", "B", "E", "G", "7", "6", "G", "M", "I", "O", " ", "C", "o", "n", "f", "i", "r", "m", "e", "d", ".", " ", "K", "s", "h", "1", "0", "0", ".", "0", "0", " ", "s", "e", "n", "t", " ", "t", "o", " ", "J", "O", "H", "N", " ", "D", "O", "E", " ", "t", "o", "d", "a", "y", " ", "a", "t", " ", "8", ":", "2", "8", " ", "A", "M">>

MSG_BAD_DATE == <<"U", "B", "E", "G", "7", "6", "G", "M", "I", "O", " ", "C", "o", "n", "f", "i", "r", "m", "e", "d", ".", " ", "K", "s", "h", "1", "0", "0", ".", "0", "0", " ", "s", "e", "n", "t", " ", "t", "o", " ", "J", "O", "H", "N", " ", "D", "O", "E", " ", "o", "n", " ", "3", "1", "/", "2", "/", "2", "6", " ", "a", "t", " ", "8", ":", "2", "8", " ", "A", "M">>

MSG_ALL_BAD == <<"U", "B", "E", "G", "7", "6", "G", "M", "I", "O", " ", "C", "o", "n", "f", "i", "r", "m", "e", "d", ".", " ", "K", "s", "h", "1", "0", "0", ".", "0", "0", " ", "s", "e", "n", "t", " ", "t", "o", " ", "J", "O", "H", "N", " ", "D", "O", "E", " ", "o", "n", " ", "1", "4", "/", "2", "/", "2", "5", " ", "a", "t", " ", "8", ":", "2", "8", " ", "A", "M">>

MSG_LOW_OLD == <<"U", "B", "E", "G", "7", "6", "G", "M", "I", "O", " ", "C", "o", "n", "f", "i", "r", "m", "e", "d", ".", " ", "K", "s", "h", "1", "0", "0", ".", "0", "0", " ", "s", "e", "n", "t", " ", "t", "o", " ", "A", "N", "D", "R", "E", "W", " ", "M", "U", "S", "I", "L", "I", " ", "o", "n", " ", "1", "4", "/", "2", "/", "2", "5", " ", "a", "t", " ", "8", ":", "2", "8", " ", "A", "M">>

MSG_OLD == <<"U", "B", "E", "G", "7", "6", "G", "M", "I", "O", " ", "C", "o", "n", "f", "i", "r", "m", "e", "d", ".", " ", "K", "s", "h", "5", "0", "0", ".", "0", "0", " ", "s", "e", "n", "t", " ", "t", "o", " ", "A", "N", "D", "R", "E", "W", " ", "M", "U", "S", "I", "L", "I", " ", "o", "n", " ", "1", "3", "/", "2", "/", "2", "6", " ", "a", "t", " ", "8", ":", "2", "8", " ", "P", "M">>

MSG_FUTURE == <<"U", "B", "E", "G", "7", "6", "G", "M", "I", "O", " ", "C", "o", "n", "f", "i", "r", "m", "e", "d", ".", " ", "K", "s", "h", "5", "0", "0", ".", "0", "0", " ", "s", "e", "n", "t", " ", "t", "o", " ", "A", "N", "D", "R", "E", "W", " ", "M", "U", "S", "I", "L", "I", " ", "o", "n", " ", "1", "4", "/", "2", "/", "2", "6", " ", "a", "t", " ", "8", ":", "2", "8", " ", "P", "M">>

SubmitInputs ==
    {IN_EMPTY, IN_BLANK, IN_BARE_LOWER, IN_BARE_MIXED, IN_BARE, IN_BARE_14_TAB,
     IN_NOSPACE_15, IN_SHORT_SPACE, MSG_250, MSG_349, MSG_500, MSG_NO_RECIPIENT, MSG_NO_CODE,
     MSG_LOWER_CODE,
     MSG_NO_AMOUNT, MSG_NO_DATE, MSG_BAD_DATE, MSG_ALL_BAD, MSG_LOW_OLD,
     MSG_OLD, MSG_FUTURE}

RevealInputs ==
    {IN_EMPTY, IN_BARE_LOWER, IN_BARE, MSG_250, MSG_500, MSG_NO_DATE}

(* The time of the messages, 14/2/26 8:28 AM.                              *)
T0 == Instant(2026, 2, 14, 8, 28, 0)

(* Readings of timezone.now(): T0; 12, 24 and 25 minutes after it and one  *)
(* second more; 5 minutes before it and one second more.                   *)
Nows ==
    {T0, T0 + 12 * 60, T0 + 24 * 60, T0 + 25 * 60, T0 + 25 * 60 + 1,
     T0 - 5 * 60, T0 - 5 * 60 - 1}

-----------------------------------------------------------------------------
(* The responses of submit_manual_payment and reveal_manual_payment.       *)

MSG_REQUIRED == "M-Pesa message or code is required"

MSG_RECIPIENT ==
    "Transaction message does not show \"ANDREW MUSILI\" as the recipient. Please verify."

(* The start of the message of line 377; the two amounts it goes on with   *)
(* are the response's cited.                                               *)
MSG_INCOMPLETE == "Incomplete payment."

MSG_TOO_OLD ==
    "This transaction message is too old (older than 25 mins). Please send a recent payment."

MSG_IN_FUTURE == "Invalid transaction time (in the future)."

MSG_ALREADY_USED ==
    "This transaction code has already been used. If you have issues, WhatsApp Andrew Musili for help."

MSG_VERIFIED == "Payment verified! Your Valentine is now live."

MSG_REVEAL_REQUIRED == "M-Pesa message required"

MSG_REVEAL_PRICE == "Reveal requires KES 350."

MSG_REVEAL_USED == "This code has already been used."

MSG_REVEAL_OK == "Code received! Here is your secret answer:"

(* An exception that leaves the handler: the framework answers 500.        *)
EXC_INTEGRITY == "IntegrityError"

-----------------------------------------------------------------------------
(* The price of a template, and the windows of the time check.             *)

PRICE_POEM == 500

PRICE_LOVE_LETTER == 350

PRICE_DEFAULT == 250

REVEAL_PRICE == 350

BARE_CODE_LEN == 15

MAX_AGE_MINUTES == 25

FUTURE_MINUTES == 5

(* A price that charges a poem the default price.                         *)
GetExpectedPriceFlat(template_type) ==
    IF template_type = "love_letter" THEN PRICE_LOVE_LETTER
    ELSE PRICE_DEFAULT

(* A price that charges what it does not know the highest price.           *)
GetExpectedPriceHighDefault(template_type) ==
    IF template_type = "poem" THEN PRICE_POEM
    ELSE IF template_type = "love_letter" THEN PRICE_LOVE_LETTER
    ELSE IF template_type = "classic" THEN PRICE_DEFAULT
    ELSE PRICE_POEM

(* _get_expected_price                                                     *)
GetExpectedPrice(template_type) ==
    IF template_type = "poem" THEN PRICE_POEM
    ELSE IF template_type = "love_letter" THEN PRICE_LOVE_LETTER
    ELSE PRICE_DEFAULT

ZeroAmount == [num |-> 0, exp |-> 0]

(* q + r/unit rounded to an integer, half to even.                         *)
RoundHalfEven(q, r, unit) ==
    IF 2 * r > unit \/ (2 * r = unit /\ q % 2 = 1) THEN q + 1 ELSE q

(* The value a DecimalField of two decimal places keeps of an amount, in   *)
(* hundredths.                                                             *)
ToHundredths(a) ==
    IF a.exp <= 2 THEN a.num * Pow10(2 - a.exp)
    ELSE RoundHalfEven(a.num \div Pow10(a.exp - 2), a.num % Pow10(a.exp - 2),
                       Pow10(a.exp - 2))

-----------------------------------------------------------------------------
(* submit_manual_payment, lines 344-392: everything before the duplicate   *)
(* lookup.  The result says whether the handler returned (verdict          *)
(* "reject", with the message and the amounts it cites) or goes on to the  *)
(* lookup (verdict "pass") with mpesa_code and amount, and whether the     *)
(* parser was called and now was read.                                     *)

Rejected(message, cited, full, now_read) ==
    [verdict |-> "reject", message |-> message, cited |-> cited,
     is_full_message |-> full, now_read |-> now_read,
     mpesa_code |-> None, amount |-> ZeroAmount]

Passed(mpesa_code, amount, full, now_read) ==
    [verdict |-> "pass", message |-> NoError, cited |-> <<>>,
     is_full_message |-> full, now_read |-> now_read,
     mpesa_code |-> mpesa_code, amount |-> amount]

(* A bare-code test that takes 15 characters too.                          *)
IsBareCodeUpTo(raw_input) ==
    Len(raw_input) <= BARE_CODE_LEN /\ ~(\E i \in 1..Len(raw_input) : raw_input[i] = " ")

(* The bare-code test of line 350: len(raw_input) < 15 and ' ' not in it.  *)
IsBareCode(raw_input) ==
    Len(raw_input) < BARE_CODE_LEN /\ ~(\E i \in 1..Len(raw_input) : raw_input[i] = " ")

(* A too-old test that rejects the boundary of the window too.             *)
TooOldInclusive(trans_time, now) == trans_time <= now - MAX_AGE_MINUTES * 60

(* Line 382: trans_time < now - timedelta(minutes=25)                      *)
TooOld(trans_time, now) == trans_time < now - MAX_AGE_MINUTES * 60

(* A future test that rejects the boundary of the window too.              *)
InFutureInclusive(trans_time, now) == trans_time >= now + FUTURE_MINUTES * 60

(* Line 388: trans_time > now + timedelta(minutes=5)                       *)
InFuture(trans_time, now) == trans_time > now + FUTURE_MINUTES * 60

(* Lines 380-392: the time checks, on one reading of now.                  *)
CheckTime(parsed_data, now) ==
    IF TooOld(parsed_data.datetime, now)
    THEN Rejected(MSG_TOO_OLD, <<>>, TRUE, TRUE)
    ELSE IF InFuture(parsed_data.datetime, now)
    THEN Rejected(MSG_IN_FUTURE, <<>>, TRUE, TRUE)
    ELSE Passed(parsed_data.code, parsed_data.amount, TRUE, TRUE)

(* Lines 372-378: the amount check; the message cites the expected amount  *)
(* and the amount of the message.                                          *)
CheckAmount(parsed_data, expected_amount, now) ==
    IF AmountLess(parsed_data.amount, expected_amount)
    THEN Rejected(MSG_INCOMPLETE,
                  <<[num |-> expected_amount, exp |-> 0], parsed_data.amount>>,
                  TRUE, FALSE)
    ELSE CheckTime(parsed_data, now)

(* The checks with the amount looked at before the recipient.              *)
CheckParsedAmountFirst(parsed_data, template_type, now) ==
    IF AmountLess(parsed_data.amount, GetExpectedPrice(template_type))
    THEN Rejected(MSG_INCOMPLETE,
                  <<[num |-> GetExpectedPrice(template_type), exp |-> 0],
                    parsed_data.amount>>,
                  TRUE, FALSE)
    ELSE IF ~parsed_data.recipient
    THEN Rejected(MSG_RECIPIENT, <<>>, TRUE, FALSE)
    ELSE CheckTime(parsed_data, now)

(* Lines 365-392: the recipient check, then the amount and time checks.    *)
CheckParsed(parsed_data, template_type, now) ==
    IF ~parsed_data.recipient
    THEN Rejected(MSG_RECIPIENT, <<>>, TRUE, FALSE)
    ELSE CheckAmount(parsed_data, GetExpectedPrice(template_type), now)

(* Lines 356-363: the outcome of the parser.                               *)
ValidateParsed(p, template_type, now) ==
    IF p.error # NoError
    THEN Rejected(p.error, <<>>, TRUE, FALSE)
    ELSE CheckParsed(p.parsed_data, template_type, now)

(* The same without the test for an empty input.                           *)
ValidateRawNoEmptyTest(raw_input, template_type, now) ==
    IF IsBareCode(raw_input)
    THEN Passed(Upper(raw_input), ZeroAmount, FALSE, FALSE)
    ELSE ValidateParsed(ParseMpesaMessage(raw_input), template_type, now)

(* Lines 346-363 on the stripped input.                                    *)
ValidateRaw(raw_input, template_type, now) ==
    IF raw_input = <<>>
    THEN Rejected(MSG_REQUIRED, <<>>, FALSE, FALSE)
    ELSE IF IsBareCode(raw_input)
    THEN Passed(Upper(raw_input), ZeroAmount, FALSE, FALSE)
    ELSE ValidateParsed(ParseMpesaMessage(raw_input), template_type, now)

(* Line 344 and the rest.                                                  *)
Validate(code_field, template_type, now) ==
    ValidateRaw(Strip(code_field), template_type, now)

(* The answers of Validate on the inputs of the model, computed once.      *)
Validated ==
    [code_field \in SubmitInputs, template_type \in Categories, now \in Nows |->
        Validate(code_field, template_type, now)]

(* Whether the call reaches line 381 and reads timezone.now(); where it    *)
(* does not, one reading stands for all of them.                           *)
ReadsNow(code_field, template_type) ==
    \E now \in Nows : Validated[code_field, template_type, now].now_read

NowChoices(code_field, template_type) ==
    IF ReadsNow(code_field, template_type) THEN Nows ELSE {T0}

(* A lookup that leaves exclude(pk=valentine.pk) out.                      *)
DuplicateAnywhere(st, mpesa_code, pk) ==
    \E q \in Pks : st[q].mpesa_code = mpesa_code

(* Valentine.objects.filter(mpesa_code=mpesa_code).exclude(pk=pk).exists() *)
Duplicate(st, mpesa_code, pk) ==
    \E q \in Pks \ {pk} : st[q].mpesa_code = mpesa_code

(* A store with no uniqueness constraint.                                  *)
UniqueViolationNever(st, pk, row) == FALSE

(* unique=True of Valentine.mpesa_code: the store refuses a row whose      *)
(* non-null code another row holds.                                        *)
UniqueViolation(st, pk, row) ==
    /\ row.mpesa_code # None
    /\ \E q \in Pks \ {pk} : st[q].mpesa_code = row.mpesa_code

(* A record as create leaves it: the payment fields at their defaults.     *)
NewValentine(template_type) ==
    [template_type |-> template_type, mpesa_code |-> None, is_paid |-> FALSE,
     is_pending_verification |-> FALSE, amount_paid |-> 0]

(* A row that takes the code and the paid mark and leaves the amount out.  *)
PaidRowNoAmount(valentine, v) ==
    [valentine EXCEPT !.mpesa_code = v.mpesa_code,
                      !.is_paid = TRUE,
                      !.is_pending_verification = TRUE]

(* Lines 401-404: the fields set on the record before it is saved.         *)
PaidRow(valentine, v) ==
    [valentine EXCEPT !.mpesa_code = v.mpesa_code,
                      !.is_paid = TRUE,
                      !.is_pending_verification = TRUE,
                      !.amount_paid = ToHundredths(v.amount)]

(* Line 507: the field set on the record before it is saved.               *)
RevealRow(valentine, v) == [valentine EXCEPT !.mpesa_code = v.mpesa_code]

(* The ledger of acceptances: the record each code was first accepted for. *)
Accept(fo, mpesa_code, pk) ==
    IF mpesa_code \in DOMAIN fo THEN fo ELSE fo @@ (mpesa_code :> pk)

Response(op, pk, code_field, now, status, message, cited, full, mpesa_code) ==
    [op |-> op, pk |-> pk, code |-> code_field, now |-> now, status |-> status,
     message |-> message, cited |-> cited, is_full_message |-> full,
     mpesa_code |-> mpesa_code]

NoResponse ==
    Response("none", 0, <<>>, <<>>, 0, NoError, <<>>, FALSE, None)

Outcome(st, saved, response) == [store |-> st, saved |-> saved, resp |-> response]

(* The same with the record saved before the code is looked up.           *)
FinishSavesFirst(st, op, pk, code_field, t, v, row, used, ok) ==
    IF v.verdict = "reject"
    THEN Outcome(st, FALSE,
                 Response(op, pk, code_field, t, 400, v.message, v.cited,
                          v.is_full_message, None))
    ELSE IF Duplicate(st, v.mpesa_code, pk)
    THEN Outcome([st EXCEPT ![pk] = [row EXCEPT !.mpesa_code = st[pk].mpesa_code]],
                 FALSE,
                 Response(op, pk, code_field, t, 400, used, <<>>,
                          v.is_full_message, v.mpesa_code))
    ELSE Outcome([st EXCEPT ![pk] = row], TRUE,
                 Response(op, pk, code_field, t, 200, ok, <<>>,
                          v.is_full_message, v.mpesa_code))

(* Lines 394-414 and 503-513: the duplicate lookup, the save and the       *)
(* answer, for the call op with the reading t of now, the validation v and *)
(* the record row to save; used and ok are the messages of the call.       *)
Finish(st, op, pk, code_field, t, v, row, used, ok) ==
    IF v.verdict = "reject"
    THEN Outcome(st, FALSE,
                 Response(op, pk, code_field, t, 400, v.message, v.cited,
                          v.is_full_message, None))
    ELSE IF Duplicate(st, v.mpesa_code, pk)
    THEN Outcome(st, FALSE,
                 Response(op, pk, code_field, t, 400, used, <<>>,
                          v.is_full_message, v.mpesa_code))
    ELSE IF UniqueViolation(st, pk, row)
    THEN Outcome(st, FALSE,
                 Response(op, pk, code_field, t, 500, EXC_INTEGRITY, <<>>,
                          v.is_full_message, v.mpesa_code))
    ELSE Outcome([st EXCEPT ![pk] = row], TRUE,
                 Response(op, pk, code_field, t, 200, ok, <<>>,
                          v.is_full_message, v.mpesa_code))

SubmitFinish(st, pk, code_field, now, v) ==
    Finish(st, "submit", pk, code_field, IF v.now_read THEN <<now>> ELSE <<>>,
           v, PaidRow(st[pk], v), MSG_ALREADY_USED, MSG_VERIFIED)

(* What one call of submit_manual_payment answers and leaves in the store. *)
SubmitResult(st, pk, code_field, now) ==
    SubmitFinish(st, pk, code_field, now,
                 Validated[code_field, st[pk].template_type, now])

(* reveal_manual_payment, lines 493-499: the outcome of the parser.        *)
RevealParsed(p) ==
    IF p.error # NoError
    THEN Rejected(p.error, <<>>, TRUE, FALSE)
    ELSE IF AmountLess(p.parsed_data.amount, REVEAL_PRICE)
    THEN Rejected(MSG_REVEAL_PRICE, <<>>, TRUE, FALSE)
    ELSE Passed(p.parsed_data.code, p.parsed_data.amount, TRUE, FALSE)

(* Lines 487-501 on the stripped input.                                    *)
RevealRaw(raw_input) ==
    IF raw_input = <<>>
    THEN Rejected(MSG_REVEAL_REQUIRED, <<>>, FALSE, FALSE)
    ELSE IF Contains(Upper(raw_input), CONFIRMED_UPPER)
    THEN RevealParsed(ParseMpesaMessage(raw_input))
    ELSE Passed(Upper(raw_input), ZeroAmount, FALSE, FALSE)

(* reveal_manual_payment, lines 486-501: everything before the lookup.     *)
RevealValidate(code_field) == RevealRaw(Strip(code_field))

RevealValidated == [code_field \in RevealInputs |-> RevealValidate(code_field)]

RevealFinish(st, pk, code_field, v) ==
    Finish(st, "reveal", pk, code_field, <<>>, v, RevealRow(st[pk], v),
           MSG_REVEAL_USED, MSG_REVEAL_OK)

(* What one call of reveal_manual_payment answers and leaves in the store. *)
RevealResult(st, pk, code_field) ==
    RevealFinish(st, pk, code_field, RevealValidated[code_field])
-----------------------------------------------------------------------------
(* Requests served concurrently: a worker's call touches the store three   *)
(* times, reading the record (get_object), looking the code up (exists)    *)
(* and saving the record, and other workers' steps come between.           *)

NumWorkers == 2

Workers == 1..NumWorkers

ConcSubmitInputs == {IN_BARE_LOWER, IN_BARE, MSG_500}

ConcRevealInputs == {IN_BARE_LOWER, MSG_500}

NoRow == NewValentine("none")

Idle ==
    [pc |-> "idle", op |-> "none", pk |-> 0, row |-> NoRow, mpesa_code |-> None,
     status |-> 0, message |-> NoError]

Done(r, status, message) ==
    [r EXCEPT !.pc = "done", !.status = status, !.message = message]

Request(op, pk, row, mpesa_code) ==
    [pc |-> "lookup", op |-> op, pk |-> pk, row |-> row,
     mpesa_code |-> mpesa_code, status |-> 0, message |-> NoError]

(* A free worker takes a request with the validation v; r is the request   *)
(* as it goes on to the lookup.                                            *)
Begin(w, v, r) ==
    /\ req[w].pc = "idle"
    /\ calls < MaxCalls
    /\ calls' = calls + 1
    /\ req' = [req EXCEPT ![w] = IF v.verdict = "reject"
                                 THEN Done(r, 400, v.message) ELSE r]
    /\ UNCHANGED <<store, resp, firstOwner, msg, parsed>>

BeginSubmitWith(w, pk, v) ==
    Begin(w, v, Request("submit", pk, PaidRow(store[pk], v), v.mpesa_code))

(* submit_manual_payment: get_object and everything up to the lookup,      *)
(* lines 343-392.  The row of the request is the record as the call will   *)
(* save it.                                                                *)
BeginSubmit(w, pk, code_field) ==
    /\ req[w].pc = "idle"
    /\ \E now \in NowChoices(code_field, store[pk].template_type) :
          BeginSubmitWith(w, pk, Validated[code_field, store[pk].template_type, now])

BeginRevealWith(w, pk, v) ==
    Begin(w, v, Request("reveal", pk, RevealRow(store[pk], v), v.mpesa_code))

(* reveal_manual_payment: get_object and everything up to the lookup,      *)
(* lines 485-501.                                                          *)
BeginReveal(w, pk, code_field) ==
    /\ req[w].pc = "idle"
    /\ BeginRevealWith(w, pk, RevealValidated[code_field])

(* Lines 394-399 and 503-505: the duplicate lookup.                        *)
Lookup(w) ==
    /\ req[w].pc = "lookup"
    /\ req' = [req EXCEPT ![w] =
                  IF Duplicate(store, @.mpesa_code, @.pk)
                  THEN Done(@, 400, IF @.op = "submit" THEN MSG_ALREADY_USED
                                    ELSE MSG_REVEAL_USED)
                  ELSE [@ EXCEPT !.pc = "save"]]
    /\ UNCHANGED <<store, resp, firstOwner, calls, msg, parsed>>

(* Lines 401-414 and 507-513: valentine.save() and the answer.  The store  *)
(* raises IntegrityError for a code another row holds, and nothing in the  *)
(* handler catches it.                                                     *)
Save(w) ==
    /\ req[w].pc = "save"
    /\ IF UniqueViolation(store, req[w].pk, req[w].row)
       THEN /\ req' = [req EXCEPT ![w] = Done(@, 500, EXC_INTEGRITY)]
            /\ store' = store
       ELSE /\ req' = [req EXCEPT ![w] =
                          Done(@, 200, IF @.op = "submit" THEN MSG_VERIFIED
                                       ELSE MSG_REVEAL_OK)]
            /\ store' = [store EXCEPT ![req[w].pk] = req[w].row]
    /\ UNCHANGED <<resp, firstOwner, calls, msg, parsed>>

(* The answer is delivered and the worker is free again.                   *)
Return(w) ==
    /\ req[w].pc = "done"
    /\ req' = [req EXCEPT ![w] = Idle]
    /\ UNCHANGED <<store, resp, firstOwner, calls, msg, parsed>>

-----------------------------------------------------------------------------
(* The requests served one at a time: each action is one whole call.       *)

NotParsed == [parsed_data |-> NoData, error |-> "not called"]

Init ==
    /\ store = [pk \in Pks |-> NewValentine(TemplateOf(pk))]
    /\ resp = NoResponse
    /\ firstOwner = <<>>
    /\ calls = 0
    /\ req = [w \in Workers |-> Idle]
    /\ msg = <<>>
    /\ parsed = NotParsed

(* One call served whole: r is its outcome.                                *)
Serve(pk, r) ==
    /\ calls < MaxCalls
    /\ calls' = calls + 1
    /\ store' = r.store
    /\ resp' = r.resp
    /\ firstOwner' = IF r.saved THEN Accept(firstOwner, r.resp.mpesa_code, pk)
                     ELSE firstOwner
    /\ UNCHANGED <<req, msg, parsed>>

(* submit_manual_payment, with the reading of timezone.now() it makes.     *)
SubmitManualPayment(pk, code_field) ==
    /\ calls < MaxCalls
    /\ \E now \in NowChoices(code_field, store[pk].template_type) :
          Serve(pk, SubmitResult(store, pk, code_field, now))

(* reveal_manual_payment                                                   *)
RevealManualPayment(pk, code_field) ==
    /\ calls < MaxCalls
    /\ Serve(pk, RevealResult(store, pk, code_field))

Next ==
    \/ \E pk \in Pks, code_field \in SubmitInputs :
          SubmitManualPayment(pk, code_field)
    \/ \E pk \in Pks, code_field \in RevealInputs :
          RevealManualPayment(pk, code_field)

Spec == Init /\ [][Next]_vars

-----------------------------------------------------------------------------
(* One request on records of any category.                                 *)

InitPrice ==
    /\ store \in {[pk \in Pks |-> NewValentine(category[pk])] :
                     category \in [Pks -> Categories]}
    /\ resp = NoResponse
    /\ firstOwner = <<>>
    /\ calls = MaxCalls - 1
    /\ req = [w \in Workers |-> Idle]
    /\ msg = <<>>
    /\ parsed = NotParsed

PriceSpec == InitPrice /\ [][Next]_vars

-----------------------------------------------------------------------------
(* The same requests served by concurrent workers.                         *)

NextConc ==
    \/ \E w \in Workers, pk \in Pks, code_field \in ConcSubmitInputs :
          BeginSubmit(w, pk, code_field)
    \/ \E w \in Workers, pk \in Pks, code_field \in ConcRevealInputs :
          BeginReveal(w, pk, code_field)
    \/ \E w \in Workers : Lookup(w)
    \/ \E w \in Workers : Save(w)
    \/ \E w \in Workers : Return(w)

ConcSpec == Init /\ [][NextConc]_vars

-----------------------------------------------------------------------------
(* The parser alone, run on texts put together from pieces: a head with or *)
(* without a code, an amount, a recipient, and a date and time.            *)

HeadPieces ==
    {<<"U", "B", "E", "G", "7", "6", "G", "M", "I", "O", " ", "C", "o", "n", "f", "i", "r", "m", "e", "d", ".", " ">>,
     <<" ", " ", "U", "B", "E", "G", "7", "6", "G", "M", "I", "O", "\t", "C", "o", "n", "f", "i", "r", "m", "e", "d", ".", " ", " ">>,
     <<"u", "b", "e", "g", "7", "6", "g", "m", "i", "o", " ", "C", "o", "n", "f", "i", "r", "m", "e", "d", ".", " ">>,
     <<"R", "e", "f", " ", "U", "B", "E", "G", "7", "6", "G", "M", "I", "O", "1", "2", " ", "c", "o", "n", "f", "i", "r", "m", "e", "d", ".", " ">>,
     <<"U", "B", "E", "G", "7", "6", " ", "C", "o", "n", "f", "i", "r", "m", "e", "d", ".", " ">>}

AmountPieces ==
    {<<"K", "s", "h", "2", "5", "0", ".", "0", "0">>, <<"K", "s", "h", "1", ",", "2", "5", "0", ".", "5", "0">>, <<"K", "s", "h", "1", ",", "2", "0", "0">>, <<"K", "s", "h", ",">>,
     <<"K", "E", "S", "2", "5", "0", ".", "0", "0">>, <<"k", "s", "h", " ", "2", "5", "0">>}

RecipientPieces ==
    {<<" ", "s", "e", "n", "t", " ", "t", "o", " ", "A", "N", "D", "R", "E", "W", " ", "M", "U", "S", "I", "L", "I", " ">>, <<" ", "s", "e", "n", "t", " ", "t", "o", " ", "A", "n", "d", "r", "e", "w", "\n", " ", "M", "u", "s", "i", "l", "i", " ">>,
     <<" ", "s", "e", "n", "t", " ", "t", "o", " ", "J", "O", "H", "N", " ", "D", "O", "E", " ">>}

DatePieces ==
    {<<"o", "n", " ", "1", "4", "/", "2", "/", "2", "6", " ", "a", "t", " ", "8", ":", "2", "8", " ", "A", "M">>,
     <<"o", "n", " ", "1", "4", "/", "0", "2", "/", "2", "0", "2", "6", " ", "a", "t", " ", "1", "2", ":", "0", "5", " ", "P", "M", ".">>,
     <<"o", "n", "\n", "1", "4", "/", "2", "/", "2", "6", " ", " ", "a", "t", " ", "8", ":", "2", "8", "\t", "A", "M">>,
     <<"o", "n", " ", "1", "4", "/", "2", "/", "9", "9", " ", "a", "t", " ", "8", ":", "2", "8", " ", "A", "M">>,
     <<"o", "n", " ", "3", "1", "/", "2", "/", "2", "6", " ", "a", "t", " ", "8", ":", "2", "8", " ", "A", "M">>,
     <<"o", "n", " ", "1", "4", "/", "1", "3", "/", "2", "6", " ", "a", "t", " ", "8", ":", "2", "8", " ", "A", "M">>,
     <<"o", "n", " ", "1", "4", "/", "2", "/", "0", "2", "6", " ", "a", "t", " ", "8", ":", "2", "8", " ", "A", "M">>,
     <<"o", "n", " ", "1", "4", "/", "2", "/", "2", "6", " ", "a", "t", " ", "1", "3", ":", "2", "8", " ", "P", "M">>,
     <<"o", "n", " ", "1", "4", "/", "2", "/", "2", "6", " ", "a", "t", " ", "8", ":", "2", "8">>}

ParserInputs ==
    {h \o a \o r \o d :
        h \in HeadPieces, a \in AmountPieces, r \in RecipientPieces, d \in DatePieces}

InitParse ==
    /\ store = [pk \in Pks |-> NewValentine(TemplateOf(pk))]
    /\ resp = NoResponse
    /\ firstOwner = <<>>
    /\ calls = 0
    /\ req = [w \in Workers |-> Idle]
    /\ msg \in ParserInputs
    /\ parsed = NotParsed

Parse ==
    /\ parsed = NotParsed
    /\ parsed' = ParseMpesaMessage(msg)
    /\ UNCHANGED <<store, resp, firstOwner, calls, req, msg>>

NextParse == Parse

ParseSpec == InitParse /\ [][NextParse]_vars

-----------------------------------------------------------------------------
(* retrieve and unlock: the record as a visitor or its creator reads it.   *)

(* The message texts of the records, which validate_message keeps          *)
(* non-empty.                                                              *)
Messages ==
    <<"Be my Valentine", "Roses are red", "You are my sunshine", "Forever yours">>

MessageOf(pk) == Messages[((pk - 1) % Len(Messages)) + 1]

(* Valentine.save() gives a record without a token the first twelve        *)
(* characters of a fresh uuid4: one token per record.                      *)
ManagementTokenOf(pk) == <<"9", "f", "1", "c", "2", "b", "7", "e", "-", "4", "a">> \o <<DigitChars[(pk % 10) + 1]>>

ANSWER_PARIS == <<"P", "a", "r", "i", "s">>

(* protection_answer is optional: null, or the answer the creator gave.    *)
ProtectionAnswers == {None, ANSWER_PARIS}

(* A record as create() leaves it: unpaid, never viewed.                   *)
CreatedValentine(pk, protection_answer) ==
    NewValentine(TemplateOf(pk)) @@
    [message |-> MessageOf(pk),
     protection_answer |-> protection_answer,
     management_token |-> ManagementTokenOf(pk),
     views_count |-> 0]

(* request.query_params.get('token'): absent, or a token of some record.   *)
TokenInputs == {None} \cup {ManagementTokenOf(pk) : pk \in Pks}

(* request.data.get('answer', ''): absent, or a text.                      *)
AnswerInputs == {None, <<" ", "P", "A", "R", "I", "S", " ">>, <<"r", "o", "m", "e">>}

MSG_NOT_PUBLISHED == "This Valentine has not been published yet."

MSG_LOCKED == "Locked by secret question"

MSG_UNLOCKED == "Unlocked!"

MSG_NOPE == "Nope, that's not it! Try again?"

(* Truth of an optional text: None and '' are false.                       *)
Truthy(text) == text # None /\ text # <<>>

(* x or '' for an optional text, and dict.get(key, '') for an absent key.  *)
OrEmpty(text) == IF text = None THEN <<>> ELSE text

(* Valentine.increment_views()                                             *)
IncrementViews(valentine) ==
    [valentine EXCEPT !.views_count = valentine.views_count + 1]

(* ValentineDetailSerializer(valentine).data, the fields the handlers and  *)
(* the properties read.                                                    *)
DetailData(valentine) ==
    [message |-> valentine.message,
     template_type |-> valentine.template_type,
     views_count |-> valentine.views_count]

GateResponse(op, pk, token, answer, status, body) ==
    [op |-> op, pk |-> pk, token |-> token, answer |-> answer,
     status |-> status, body |-> body]

(* Line 65 *)
IsOwner(mgmt_token, valentine) == mgmt_token = valentine.management_token

(* Lines 67-72: the refusal of retrieve.                                   *)
NotPublished ==
    [success |-> FALSE, message |-> MSG_NOT_PUBLISHED, is_paid |-> FALSE]

(* Lines 75-88: the data retrieve answers for the record just counted.     *)
RetrieveData(valentine) ==
    IF Truthy(valentine.protection_answer)
    THEN [DetailData(valentine) EXCEPT !.message = MSG_LOCKED] @@
         [is_paid |-> valentine.is_paid, is_locked |-> TRUE]
    ELSE DetailData(valentine) @@
         [is_paid |-> valentine.is_paid, is_locked |-> FALSE]

(* retrieve, lines 60-90.                                                  *)
RetrieveResult(st, pk, mgmt_token) ==
    IF ~st[pk].is_paid /\ ~IsOwner(mgmt_token, st[pk])
    THEN Outcome(st, FALSE,
                 GateResponse("retrieve", pk, mgmt_token, None, 402, NotPublished))
    ELSE Outcome([st EXCEPT ![pk] = IncrementViews(st[pk])], FALSE,
                 GateResponse("retrieve", pk, mgmt_token, None, 200,
                              RetrieveData(IncrementViews(st[pk]))))

(* Lines 98-99: the two answers as they are compared.                      *)
AnswerMatches(answer, valentine) ==
    Lower(Strip(OrEmpty(answer))) = Lower(Strip(OrEmpty(valentine.protection_answer)))

(* Lines 101-109: the body of a successful unlock.                         *)
Unlocked(valentine) ==
    [success |-> TRUE, message |-> MSG_UNLOCKED,
     data |-> DetailData(valentine) @@ [is_locked |-> FALSE]]

(* Lines 111-114 *)
Nope == [success |-> FALSE, message |-> MSG_NOPE]

(* unlock, lines 92-115: the query string of the request is not read.      *)
UnlockResult(st, pk, token, answer) ==
    IF AnswerMatches(answer, st[pk])
    THEN Outcome(st, FALSE,
                 GateResponse("unlock", pk, token, answer, 200, Unlocked(st[pk])))
    ELSE Outcome(st, FALSE,
                 GateResponse("unlock", pk, token, answer, 403, Nope))

InitGate ==
    /\ store \in {[pk \in Pks |-> CreatedValentine(pk, answers[pk])] :
                     answers \in [Pks -> ProtectionAnswers]}
    /\ resp = NoResponse
    /\ firstOwner = <<>>
    /\ calls = 0
    /\ req = [w \in Workers |-> Idle]
    /\ msg = <<>>
    /\ parsed = NotParsed

Retrieve(pk, mgmt_token) ==
    /\ calls < MaxCalls
    /\ Serve(pk, RetrieveResult(store, pk, mgmt_token))

Unlock(pk, token, answer) ==
    /\ calls < MaxCalls
    /\ Serve(pk, UnlockResult(store, pk, token, answer))

NextGate ==
    \/ \E pk \in Pks, code_field \in ConcSubmitInputs :
          SubmitManualPayment(pk, code_field)
    \/ \E pk \in Pks, mgmt_token \in TokenInputs : Retrieve(pk, mgmt_token)
    \/ \E pk \in Pks, token \in TokenInputs, answer \in AnswerInputs :
          Unlock(pk, token, answer)

GateSpec == InitGate /\ [][NextGate]_vars

-----------------------------------------------------------------------------
(* What the properties below are stated with: the shape of an input, the   *)
(* parser's answer on it, the price list, and whether a different record   *)
(* holds a code.                                                           *)

(* The parser's answers on the inputs of the model, computed once.         *)
ParsedOf ==
    [code_field \in SubmitInputs |-> ParseMpesaMessage(Strip(code_field))]

(* "empty", "bare" (trimmed, shorter than 15 characters, no space) or      *)
(* "full".                                                                 *)
ShapeOf(raw_input) ==
    IF raw_input = <<>> THEN "empty"
    ELSE IF Len(raw_input) < BARE_CODE_LEN /\ " " \notin Range(raw_input) THEN "bare"
    ELSE "full"

Shape == [code_field \in SubmitInputs |-> ShapeOf(Strip(code_field))]

(* The trimmed input in upper case.                                        *)
BareCodeOf == [code_field \in SubmitInputs |-> Upper(Strip(code_field))]

CategoryPrice ==
    [classic |-> PRICE_DEFAULT, love_letter |-> PRICE_LOVE_LETTER, poem |-> PRICE_POEM]

HeldByOther(st, mpesa_code, pk) ==
    \E q \in Pks : q # pk /\ st[q].mpesa_code = mpesa_code

(* The step is one call of submit_manual_payment; resp' is its answer and  *)
(* store the records it found.                                             *)
SubmitServed == calls' = calls + 1 /\ resp'.op = "submit"

(* The call read now, or did not read the clock at all.                    *)
ReadAt(response, now) == response.now \in {<<>>, <<now>>}

(* A parsed message passes the recipient, amount and time checks.          *)
ValidParsed(p, price, now) ==
    /\ p.error = NoError
    /\ p.parsed_data.recipient
    /\ ~AmountLess(p.parsed_data.amount, price)
    /\ p.parsed_data.datetime >= now - MAX_AGE_MINUTES * 60
    /\ p.parsed_data.datetime <= now + FUTURE_MINUTES * 60

(* The code UBEG76GMIO of the full messages.                               *)
CODE_UBEG == Upper(IN_BARE_LOWER)

-----------------------------------------------------------------------------
ValidFullAccepted(st, response, now) ==
    (/\ Shape[response.code] = "full"
     /\ ReadAt(response, now)
     /\ ValidParsed(ParsedOf[response.code],
                    CategoryPrice[st[response.pk].template_type], now))
    => response.status = 200 /\ response.message = MSG_VERIFIED

ValidFreshAccepted(st, response, now) ==
    (/\ Shape[response.code] = "full"
     /\ ReadAt(response, now)
     /\ ValidParsed(ParsedOf[response.code],
                    CategoryPrice[st[response.pk].template_type], now)
     /\ ~HeldByOther(st, ParsedOf[response.code].parsed_data.code, response.pk))
    => response.status = 200 /\ response.message = MSG_VERIFIED

(* C1, as the specification states it: every full message that parses,     *)
(* names the recipient, shows an amount of at least the price of the       *)
(* record's category and carries a time within [now - 25 min, now + 5 min] *)
(* is accepted.                                                            *)
C1_ValidAccepted ==
    [][SubmitServed => \A now \in Nows : ValidFullAccepted(store, resp', now)]_vars

(* C1, amended: every such full message whose code no different record     *)
(* holds when the call looks it up and saves is accepted.                  *)
C1_ValidFreshAccepted ==
    [][SubmitServed => \A now \in Nows : ValidFreshAccepted(store, resp', now)]_vars

(* A full message timed exactly 5 minutes after now has been accepted.     *)
C1_Witness ==
    /\ resp.op = "submit"
    /\ resp.status = 200
    /\ resp.is_full_message
    /\ resp.now = <<T0 - FUTURE_MINUTES * 60>>
    /\ store[resp.pk].mpesa_code = CODE_UBEG

-----------------------------------------------------------------------------
(* The reason of the first check a parsed or unparsed message fails, in    *)
(* the order parse, recipient, amount, too old, in the future, duplicate;  *)
(* the acceptance when it fails none.                                      *)
FirstFailure(st, pk, p, price, now) ==
    IF p.error # NoError THEN p.error
    ELSE IF ~p.parsed_data.recipient THEN MSG_RECIPIENT
    ELSE IF AmountLess(p.parsed_data.amount, price) THEN MSG_INCOMPLETE
    ELSE IF p.parsed_data.datetime < now - MAX_AGE_MINUTES * 60 THEN MSG_TOO_OLD
    ELSE IF p.parsed_data.datetime > now + FUTURE_MINUTES * 60 THEN MSG_IN_FUTURE
    ELSE IF HeldByOther(st, p.parsed_data.code, pk) THEN MSG_ALREADY_USED
    ELSE MSG_VERIFIED

FirstFailureWins(st, response, now) ==
    /\ (Shape[response.code] = "full" /\ ReadAt(response, now)) =>
          response.message =
             FirstFailure(st, response.pk, ParsedOf[response.code],
                          CategoryPrice[st[response.pk].template_type], now)
    /\ Shape[response.code] = "bare" =>
          response.message =
             IF HeldByOther(st, BareCodeOf[response.code], response.pk)
             THEN MSG_ALREADY_USED ELSE MSG_VERIFIED

(* C2: on the full-message path the reason reported is that of the first   *)
(* failing check in the order parse, recipient, amount, too old, in the    *)
(* future, duplicate, and the duplicate lookup is the last gate of a full  *)
(* message and of a bare code.                                             *)
C2_FirstFailureWins ==
    [][SubmitServed => \A now \in Nows : FirstFailureWins(store, resp', now)]_vars

(* A message that names another recipient, pays too little, is too old and *)
(* carries a code another record holds has been rejected for the           *)
(* recipient.                                                              *)
C2_Witness ==
    /\ resp.op = "submit"
    /\ resp.code = MSG_ALL_BAD
    /\ resp.status = 400
    /\ resp.message = MSG_RECIPIENT
    /\ HeldByOther(store, CODE_UBEG, resp.pk)

-----------------------------------------------------------------------------
(* The code a submission carries once normalized; None when it has none.   *)
SubmittedCode ==
    [code_field \in SubmitInputs |->
        IF Shape[code_field] = "bare" THEN BareCodeOf[code_field]
        ELSE IF Shape[code_field] = "full" /\ ParsedOf[code_field].error = NoError
        THEN ParsedOf[code_field].parsed_data.code
        ELSE None]

OtherChecksPass(st, response, now) ==
    \/ Shape[response.code] = "bare"
    \/ /\ Shape[response.code] = "full"
       /\ ReadAt(response, now)
       /\ ValidParsed(ParsedOf[response.code],
                      CategoryPrice[st[response.pk].template_type], now)

DuplicateRejected(st, response, now) ==
    /\ (/\ OtherChecksPass(st, response, now)
        /\ HeldByOther(st, SubmittedCode[response.code], response.pk))
       => response.status = 400 /\ response.message = MSG_ALREADY_USED
    /\ response.message = MSG_ALREADY_USED
       => HeldByOther(st, SubmittedCode[response.code], response.pk)

(* C3: a bare code or full message whose normalized code a different       *)
(* record holds is rejected as a duplicate even if every other check       *)
(* passes, and a submission whose code no different record holds (it is    *)
(* free, or held only by the record being paid for) is not rejected as a   *)
(* duplicate.                                                              *)
C3_DuplicateCheck ==
    [][SubmitServed => \A now \in Nows : DuplicateRejected(store, resp', now)]_vars

(* A full message that passes every other check has been rejected because  *)
(* another record holds its code.                                          *)
C3_Witness ==
    /\ resp.op = "submit"
    /\ resp.is_full_message
    /\ resp.now # <<>>
    /\ resp.status = 400
    /\ resp.message = MSG_ALREADY_USED
    /\ HeldByOther(store, resp.mpesa_code, resp.pk)

-----------------------------------------------------------------------------
(* C4: a code once accepted for one record is never afterwards accepted    *)
(* for a different record: every acceptance is for the record the code was *)
(* first accepted for.                                                     *)
C4_NeverReaccepted ==
    resp.status = 200 => firstOwner[resp.mpesa_code] = resp.pk

-----------------------------------------------------------------------------
(* C5: in every reachable state of the store no two records hold the same  *)
(* non-null transaction code, also when two calls for two records pass the *)
(* duplicate lookup before either saves.                                   *)
C5_UniqueCodes ==
    \A p \in Pks, q \in Pks :
        (p # q /\ store[p].mpesa_code # None) => store[p].mpesa_code # store[q].mpesa_code

(* Two calls for two records with the same code have both passed the       *)
(* lookup: one has saved and the store has refused the other.              *)
C5_Witness ==
    \E w1 \in Workers, w2 \in Workers :
        /\ req[w1].pc = "done" /\ req[w1].status = 200
        /\ req[w2].pc = "done" /\ req[w2].status = 500
        /\ req[w1].pk # req[w2].pk
        /\ req[w1].mpesa_code = req[w2].mpesa_code
        /\ store[req[w1].pk].mpesa_code = req[w1].mpesa_code
        /\ store[req[w2].pk].mpesa_code # req[w2].mpesa_code

-----------------------------------------------------------------------------
(* C6: every call, under every interleaving, ends with an acceptance (200) *)
(* or a rejection with its reason (400), never with an exception that      *)
(* leaves the handler.                                                     *)
C6_TypedVerdicts ==
    \A w \in Workers : req[w].pc = "done" => req[w].status \in {200, 400}

-----------------------------------------------------------------------------
BareCodeTreated(st, st2, response) ==
    /\ Shape[response.code] = "bare" =>
          /\ ~response.is_full_message
          /\ response.now = <<>>
          /\ response.cited = <<>>
          /\ response.mpesa_code = BareCodeOf[response.code]
          /\ response.status = 200
                <=> ~HeldByOther(st, BareCodeOf[response.code], response.pk)
          /\ response.status = 200
                => st2[response.pk].mpesa_code = BareCodeOf[response.code]
          /\ response.status # 200
                => response.status = 400 /\ response.message = MSG_ALREADY_USED
    /\ Shape[response.code] = "full" => response.is_full_message

(* C7: a trimmed input that is non-empty, shorter than 15 characters and   *)
(* without a space is taken as a code: it is put in upper case, the parser *)
(* is not called, the clock is not read, no amount is looked at, and it is *)
(* accepted exactly when no other record holds the code in upper case;     *)
(* every other non-empty input goes through the parser.                    *)
C7_BareCodePath ==
    [][SubmitServed => BareCodeTreated(store, store', resp')]_vars

(* A bare code in lower case has been accepted and stored in upper case.   *)
C7_Witness ==
    /\ resp.op = "submit"
    /\ resp.code = IN_BARE_LOWER
    /\ resp.status = 200
    /\ ~resp.is_full_message
    /\ store[resp.pk].mpesa_code = CODE_UBEG

-----------------------------------------------------------------------------
WindowOf(response, trans_time, now) ==
    /\ response.message = MSG_TOO_OLD <=> trans_time < now - MAX_AGE_MINUTES * 60
    /\ response.message = MSG_IN_FUTURE <=> trans_time > now + FUTURE_MINUTES * 60

(* C8: where the time checks are reached, with the one reading now of the  *)
(* clock, the message is rejected as too old exactly when its time is      *)
(* before now - 25 minutes and as in the future exactly when its time is   *)
(* after now + 5 minutes.                                                  *)
C8_RecencyWindow ==
    [][SubmitServed =>
          \A now \in Nows :
             resp'.now = <<now>> =>
                WindowOf(resp', ParsedOf[resp'.code].parsed_data.datetime, now)]_vars

(* A message 25 minutes and 1 second old has been rejected as too old.     *)
C8_Witness ==
    /\ resp.op = "submit"
    /\ resp.code = MSG_250
    /\ resp.now = <<T0 + MAX_AGE_MINUTES * 60 + 1>>
    /\ resp.status = 400
    /\ resp.message = MSG_TOO_OLD

-----------------------------------------------------------------------------
AmountChecked(response, p, price) ==
    (Shape[response.code] = "full" /\ p.error = NoError /\ p.parsed_data.recipient) =>
       /\ AmountLess(p.parsed_data.amount, price) =>
             /\ response.status = 400
             /\ response.message = MSG_INCOMPLETE
             /\ response.cited = <<[num |-> price, exp |-> 0], p.parsed_data.amount>>
       /\ ~AmountLess(p.parsed_data.amount, price) =>
             response.message # MSG_INCOMPLETE

(* C9: a full message that names the recipient and shows an amount below   *)
(* the price of the record's category is rejected as an incomplete payment *)
(* citing the price and the amount shown; an amount equal to the price or  *)
(* above it passes the amount check.                                       *)
C9_AmountCheck ==
    [][SubmitServed =>
          AmountChecked(resp', ParsedOf[resp'.code],
                        CategoryPrice[store[resp'.pk].template_type])]_vars

(* A message of Ksh250.00 for a poem has been rejected citing 500 and 250. *)
C9_Witness ==
    /\ resp.op = "submit"
    /\ store[resp.pk].template_type = "poem"
    /\ resp.status = 400
    /\ resp.message = MSG_INCOMPLETE
    /\ resp.cited = <<[num |-> PRICE_POEM, exp |-> 0], [num |-> 250, exp |-> 0]>>
    /\ store[resp.pk].mpesa_code = None

-----------------------------------------------------------------------------
AllExtracted(m) ==
    /\ ExtractCode(m) # None
    /\ ExtractAmount(m).status = "ok"
    /\ ExtractDateTime(m).status = "ok"

RecordOrError(result, all) ==
    IF all
    THEN /\ result.error = NoError
         /\ DOMAIN result.parsed_data = {"code", "amount", "datetime", "recipient"}
    ELSE /\ result.error # NoError
         /\ result.parsed_data = NoData

(* C10: the parser returns a record, with all four entries and no error,   *)
(* only when the code, the amount and the date and time are all extracted; *)
(* where one of them fails it returns an error and no record.              *)
C10_RecordOrError ==
    parsed # NotParsed => RecordOrError(parsed, AllExtracted(JoinSplit(msg)))

(* A text whose code and amount are extracted and whose date and time are  *)
(* not has given an error and no record.                                   *)
C10_Witness ==
    /\ parsed # NotParsed
    /\ ExtractCode(JoinSplit(msg)) # None
    /\ ExtractAmount(JoinSplit(msg)).status = "ok"
    /\ ExtractDateTime(JoinSplit(msg)).status # "ok"
    /\ parsed.parsed_data = NoData
    /\ parsed.error \in {ERR_NO_DATE, ERR_DATE_FORMAT}

-----------------------------------------------------------------------------
(* The text holds no run of ten upper-case letters or digits.              *)
NoCodeRun(text) ==
    ~\E i \in 1..Len(text) :
        /\ i + 9 <= Len(text)
        /\ \A k \in 0..9 : text[i + k] \in UpperSet \cup DigitSet

NoCodeRunIn == [code_field \in SubmitInputs |-> NoCodeRun(code_field)]

(* C11: a full message with no run of ten upper-case letters or digits     *)
(* anywhere in its text is rejected for the missing code, whatever else it *)
(* holds.                                                                  *)
C11_MissingCode ==
    [][(SubmitServed /\ Shape[resp'.code] = "full" /\ NoCodeRunIn[resp'.code])
          => /\ resp'.status = 400
             /\ resp'.message = ERR_NO_CODE
             /\ store' = store]_vars

(* A message whose code is in lower case and whose amount, recipient and   *)
(* time are good has been rejected for the missing code.                   *)
C11_Witness ==
    /\ resp.op = "submit"
    /\ resp.code = MSG_LOWER_CODE
    /\ resp.status = 400
    /\ resp.message = ERR_NO_CODE

-----------------------------------------------------------------------------
(* C12: the recipient entry of the record is true exactly when the name    *)
(* occurs, letter case aside, in the message as it was submitted.          *)
C12_RecipientOfOriginal ==
    parsed.error = NoError =>
        (parsed.parsed_data.recipient <=> Contains(Upper(msg), ANDREW_MUSILI))

-----------------------------------------------------------------------------
(* The amount a submission shows, in hundredths: that of the parsed        *)
(* message, 0 for a bare code.                                             *)
ShownHundredths(code_field, amount_paid) ==
    IF Shape[code_field] = "bare" THEN amount_paid = 0
    ELSE amount_paid * Pow10(ParsedOf[code_field].parsed_data.amount.exp)
            = 100 * ParsedOf[code_field].parsed_data.amount.num

BoundOnAcceptance(response, row) ==
    response.status = 200 =>
       /\ response.mpesa_code = SubmittedCode[response.code]
       /\ row.mpesa_code = SubmittedCode[response.code]
       /\ row.is_paid
       /\ row.is_pending_verification
       /\ ShownHundredths(response.code, row.amount_paid)

(* The example: Ksh250.00 of 8:28 AM for a classic record at 8:40 AM.      *)
ExampleAccepted(st, response, row) ==
    (/\ response.code = MSG_250
     /\ response.now \in {<<>>, <<T0 + 12 * 60>>}
     /\ row.template_type = "classic"
     /\ ~HeldByOther(st, CODE_UBEG, response.pk))
    => /\ response.status = 200
       /\ row.mpesa_code = CODE_UBEG
       /\ row.amount_paid = 250 * 100

(* C13: on acceptance the record paid for holds the normalized code, is    *)
(* marked paid and pending verification, and keeps the amount of the       *)
(* message (0 for a bare code); the message of Ksh250.00 at 8:28 AM for a  *)
(* classic record at 8:40 AM is accepted with code UBEG76GMIO and amount   *)
(* 250.                                                                    *)
C13_BoundOnAcceptance ==
    [][SubmitServed =>
          /\ BoundOnAcceptance(resp', store'[resp'.pk])
          /\ ExampleAccepted(store, resp', store'[resp'.pk])]_vars

(* The example has happened.                                               *)
C13_Witness ==
    /\ resp.op = "submit"
    /\ resp.code = MSG_250
    /\ resp.now = <<T0 + 12 * 60>>
    /\ resp.status = 200
    /\ store[resp.pk].template_type = "classic"
    /\ store[resp.pk].mpesa_code = CODE_UBEG
    /\ store[resp.pk].is_paid
    /\ store[resp.pk].is_pending_verification
    /\ store[resp.pk].amount_paid = 250 * 100

-----------------------------------------------------------------------------
(* C14: an input that is empty, or only whitespace, once trimmed is        *)
(* rejected as required input missing: the parser is not called, no code   *)
(* is looked up, and no record changes.                                    *)
C14_EmptyInput ==
    [][(SubmitServed /\ Shape[resp'.code] = "empty")
          => /\ resp'.status = 400
             /\ resp'.message = MSG_REQUIRED
             /\ ~resp'.is_full_message
             /\ resp'.mpesa_code = None
             /\ resp'.now = <<>>
             /\ store' = store]_vars

(* An input of whitespace alone has been rejected.                         *)
C14_Witness ==
    /\ resp.op = "submit"
    /\ resp.code = IN_BLANK
    /\ resp.status = 400
    /\ resp.message = MSG_REQUIRED

-----------------------------------------------------------------------------
(* The calendar year an instant falls in, for the years 1969 to 2068.      *)
YearOfInstant(t) ==
    CHOOSE y \in 1969..2068 :
        Instant(y, 1, 1, 0, 0, 0) <= t /\ t < Instant(y + 1, 1, 1, 0, 0, 0)

(* The year the claim gives the digits of a date: 2000 + yy for two        *)
(* digits, the number as written for four.                                 *)
YearWritten(year) ==
    IF Len(year) = 2 THEN 2000 + DigitsToNat(year) ELSE DigitsToNat(year)

(* C15: a two-digit year yy of the date is the year 2000 + yy of the       *)
(* parsed time, never 19yy, and a four-digit year is taken as written.     *)
C15_CurrentCentury ==
    parsed.error = NoError =>
        YearOfInstant(parsed.parsed_data.datetime)
           = YearWritten(DateGroups(JoinSplit(msg),
                                    Leftmost(DateMatches(JoinSplit(msg)))).year)

-----------------------------------------------------------------------------
(* The amount pattern matches in the text and what it matches holds no     *)
(* digit: no number can be read from it.                                   *)
UnusableAmount(m) ==
    /\ AmountMatches(m) # {}
    /\ \A i \in 1..Len(AmountGroup(m)) : AmountGroup(m)[i] \notin DigitSet

(* The digits of a date and time name no calendar date or no time of a     *)
(* twelve-hour clock, or the year has three digits.                        *)
NoCalendarTime(g) ==
    \/ Len(g.year) = 3
    \/ DigitsToNat(g.month) \notin 1..12
    \/ DigitsToNat(g.day) < 1
    \/ DigitsToNat(g.hour) \notin 1..12
    \/ DigitsToNat(g.minute) > 59
    \/ /\ Len(g.year) # 3
       /\ DigitsToNat(g.month) \in 1..12
       /\ DigitsToNat(g.day) > DaysInMonth(YearWritten(g.year), DigitsToNat(g.month))

UnusableDate(m) ==
    /\ DateMatches(m) # {}
    /\ NoCalendarTime(DateGroups(m, Leftmost(DateMatches(m))))

AmountErrors == {ERR_NO_AMOUNT, ERR_BAD_AMOUNT}

DateErrors == {ERR_NO_DATE, ERR_DATE_FORMAT}

UnusableIsError(result, m) ==
    /\ (FallbackCodeMatches(m) # {} /\ UnusableAmount(m)) =>
          result.parsed_data = NoData /\ result.error \in AmountErrors
    /\ (/\ FallbackCodeMatches(m) # {}
        /\ AmountMatches(m) # {}
        /\ ~UnusableAmount(m)
        /\ UnusableDate(m)) =>
          result.parsed_data = NoData /\ result.error \in DateErrors

(* C16: a text whose amount pattern matches something that is no number    *)
(* gives the parse error of the amount, and one whose date pattern matches *)
(* digits that are no calendar date and time gives the parse error of the  *)
(* date and time; neither gives a record.                                  *)
C16_UnusableIsError ==
    parsed # NotParsed => UnusableIsError(parsed, JoinSplit(msg))

(* A text with its code, its amount and the date 31/2 has given the parse  *)
(* error of the date and no record.                                        *)
C16_Witness ==
    /\ parsed # NotParsed
    /\ Contains(msg, <<"o", "n", " ", "3", "1", "/", "2", "/", "2", "6">>)
    /\ parsed.parsed_data = NoData
    /\ parsed.error = ERR_DATE_FORMAT

-----------------------------------------------------------------------------
(* The price list of the claim.                                            *)
TierTable == [classic |-> 250, love_letter |-> 350, poem |-> 500]

LowestTier ==
    CHOOSE p \in {TierTable[c] : c \in DOMAIN TierTable} :
        \A c \in DOMAIN TierTable : p <= TierTable[c]

TierPrice(category) ==
    IF category \in DOMAIN TierTable THEN TierTable[category] ELSE LowestTier

PricedByTier(response, p, price) ==
    (Shape[response.code] = "full" /\ p.error = NoError /\ p.parsed_data.recipient) =>
       /\ response.message = MSG_INCOMPLETE <=> AmountLess(p.parsed_data.amount, price)
       /\ response.message = MSG_INCOMPLETE =>
             response.cited[1] = [num |-> price, exp |-> 0]

(* C17: the price asked of a record is 250 for classic, 350 for            *)
(* love_letter, 500 for poem and, for any other category, the lowest of    *)
(* these, 250: the amount check rejects exactly the amounts below it and   *)
(* cites it.                                                               *)
C17_PriceTiers ==
    [][SubmitServed =>
          PricedByTier(resp', ParsedOf[resp'.code],
                       TierPrice(store[resp'.pk].template_type))]_vars

(* A record of an unknown category has been paid with Ksh250.00.           *)
C17_Witness ==
    /\ resp.op = "submit"
    /\ resp.code = MSG_250
    /\ resp.status = 200
    /\ store[resp.pk].template_type = "unknown"
    /\ store[resp.pk].amount_paid = 250 * 100

-----------------------------------------------------------------------------
(* The digits of a literal, its commas and its point left out, and the     *)
(* number of digits after its point.                                       *)
DigitsOfLiteral(lit) == SelectSeq(lit, LAMBDA c : c \in DigitSet)

PointsOf(lit) == {i \in 1..Len(lit) : lit[i] = "."}

DecimalsOfLiteral(lit, points) ==
    IF points = {} THEN 0
    ELSE Len(SelectSeq(SubSeq(lit, Leftmost(points) + 1, Len(lit)),
                       LAMBDA c : c \in DigitSet))

(* The amount a is the decimal number the literal writes.                  *)
IsValueOf(a, lit) ==
    a.num * Pow10(DecimalsOfLiteral(lit, PointsOf(lit)))
       = DigitsToNat(DigitsOfLiteral(lit)) * Pow10(a.exp)

AmountRead(result, text, m) ==
    /\ IsValueOf(result.parsed_data.amount, AmountGroup(m))
    /\ Contains(text, <<"K", "s", "h", "1", ",", "2", "5", "0", ".", "5", "0", " ">>) =>
          result.parsed_data.amount.num * 100
             = 125050 * Pow10(result.parsed_data.amount.exp)
    /\ Contains(text, <<"K", "s", "h", "1", ",", "2", "0", "0", " ">>) =>
          result.parsed_data.amount.num
             = 1200 * Pow10(result.parsed_data.amount.exp)

(* C18: the amount of the record is the literal that follows Ksh, read as  *)
(* a decimal number with its commas removed: Ksh1,250.50 is 1250.50 and    *)
(* Ksh1,200 is 1200.                                                       *)
C18_AmountRead ==
    parsed.error = NoError => AmountRead(parsed, msg, JoinSplit(msg))

(* A text with Ksh1,250.50 has been parsed to the amount 1250.5.           *)
C18_Witness ==
    /\ parsed.error = NoError
    /\ Contains(msg, <<"K", "s", "h", "1", ",", "2", "5", "0", ".", "5", "0", " ">>)
    /\ parsed.parsed_data.amount = [num |-> 12505, exp |-> 1]

-----------------------------------------------------------------------------
RejectionMessages ==
    {MSG_REQUIRED, ERR_NO_CODE, ERR_NO_AMOUNT, ERR_BAD_AMOUNT, ERR_NO_DATE,
     ERR_DATE_FORMAT, MSG_RECIPIENT, MSG_INCOMPLETE, MSG_TOO_OLD, MSG_IN_FUTURE,
     MSG_ALREADY_USED}

(* C19: a call of submit_manual_payment that answers a rejection (input    *)
(* missing, parse error, recipient, amount, too old, in the future,        *)
(* duplicate) leaves the record it was made for, its mpesa_code, is_paid,  *)
(* is_pending_verification and amount_paid, and every other record as they *)
(* were.                                                                   *)
C19_RejectionChangesNothing ==
    [][(SubmitServed /\ resp'.status # 200)
          => /\ resp'.status = 400
             /\ resp'.message \in RejectionMessages
             /\ store' = store]_vars

(* A record paid with one code has been refused a second code that another *)
(* record holds, and keeps its first code.                                 *)
C19_Witness ==
    /\ resp.op = "submit"
    /\ resp.status = 400
    /\ resp.message = MSG_ALREADY_USED
    /\ store[resp.pk].is_paid
    /\ store[resp.pk].mpesa_code # None
    /\ store[resp.pk].mpesa_code # resp.mpesa_code

-----------------------------------------------------------------------------
GateServed == calls' = calls + 1 /\ resp'.op \in {"retrieve", "unlock"}

(* The body carries the text, as its message or as the message of its data. *)
Obtains(body, content) ==
    \/ "message" \in DOMAIN body /\ body.message = content
    \/ "data" \in DOMAIN body /\ body.data.message = content

LacksToken(response, valentine) == response.token # valentine.management_token

(* C20: while a record is unpaid, a call of retrieve or of unlock whose    *)
(* request does not carry the record's management token does not answer    *)
(* the record's message, and retrieve answers 402 and leaves views_count,  *)
(* with the rest of the store, as it was.                                  *)
C20_PaymentGating ==
    [][(/\ GateServed
        /\ ~store[resp'.pk].is_paid
        /\ LacksToken(resp', store[resp'.pk]))
          => /\ ~Obtains(resp'.body, store[resp'.pk].message)
             /\ resp'.op = "retrieve"
                   => /\ resp'.status = 402
                      /\ store' = store]_vars

-----------------------------------------------------------------------------
LowerSet == Range(LowerLetters)

NoLowerCase(text) == \A i \in 1..Len(text) : text[i] \notin LowerSet

StoredCodesUpper(st) ==
    \A pk \in Pks : st[pk].mpesa_code # None => NoLowerCase(st[pk].mpesa_code)

(* Two texts that differ at most in the case of their letters.             *)
SameButCase(a, b) == Lower(a) = Lower(b)

CaseVariantHeld(st, raw_input, pk) ==
    \E q \in Pks :
        /\ q # pk
        /\ st[q].mpesa_code # None
        /\ SameButCase(st[q].mpesa_code, raw_input)

BareNormalized(st, after, response) ==
    Shape[response.code] = "bare"
       => IF CaseVariantHeld(st, Strip(response.code), response.pk)
          THEN /\ response.status = 400
               /\ response.message = MSG_ALREADY_USED
               /\ after = st
          ELSE /\ response.status = 200
               /\ NoLowerCase(after[response.pk].mpesa_code)
               /\ SameButCase(after[response.pk].mpesa_code, Strip(response.code))

(* C21: in every reachable state every code that submit_manual_payment or  *)
(* reveal_manual_payment has stored on a record has no lowercase letter;   *)
(* and a bare code submitted for one record while a different record holds *)
(* the same code in any letter case is rejected as a duplicate, while one  *)
(* that no different record holds is stored as its upper-case form.        *)
C21_UpperCaseCodes ==
    /\ []StoredCodesUpper(store)
    /\ [][SubmitServed => BareNormalized(store, store', resp')]_vars

(* A bare code in mixed case has been refused for one record because a     *)
(* different record holds the code it was first accepted with, in upper    *)
(* case.                                                                   *)
C21_Witness ==
    /\ resp.op = "submit"
    /\ resp.code = IN_BARE_MIXED
    /\ ~resp.is_full_message
    /\ resp.status = 400
    /\ resp.message = MSG_ALREADY_USED
    /\ \E q \in Pks :
          /\ q # resp.pk
          /\ store[q].mpesa_code = <<"U", "B", "E", "G", "7", "6", "G", "M", "I", "O">>
          /\ firstOwner[store[q].mpesa_code] = q

=============================================================================
